---- MODULE Spec2Model ----
(***************************************************************************)
(* The chain controller of camino-timestampvm (timestampvm/vm.go): the VM  *)
(* struct, its durable state, the mempool, the verified-block cache and    *)
(* the operations the consensus engine and the service layer invoke.       *)
(* Block (block.go) and State (state.go) are called by vm.go but are not   *)
(* part of the sources at hand; their operators follow spec.md sections    *)
(* 4.1 and 4.2 and are marked as such.                                     *)
(***************************************************************************)
EXTENDS Integers, Sequences, FiniteSets, TLC

\* const dataLen = 32
dataLen == 32

\* ---- bounds of the model ------------------------------------------------
\* block objects created over a run (BuildBlock, ParseBlock)
MaxInst == 2
\* payloads proposed over a run
MaxProposals == 2
\* the reading of time.Now().Unix(), a second after the epoch
ClockNow == 1

VARIABLES
    disk,            \* the committed database under the versiondb
    state,           \* vm.state: the versiondb view (committed + buffered writes)
    up,              \* Initialize has returned nil in this process
    preferred,       \* vm.preferred
    mempool,         \* vm.mempool
    verifiedBlocks,  \* vm.verifiedBlocks: block id -> block object
    toEngine,        \* vm.toEngine: the number of PendingTxs messages buffered
    heap,            \* the block objects handed to the engine: [blk, status]
    ret,             \* the last call and what it returned
    unbuilt,         \* history: the payloads handed to proposeBlock, in order,
                     \* less one, the oldest, for each block BuildBlock returned
    nProposed,       \* history: number of payloads handed to proposeBlock
    made,            \* history: number of block objects created
    owed             \* history: the messages the engine has taken from toEngine
                     \* and not yet answered with a call of BuildBlock

vars == <<disk, state, up, preferred, mempool, verifiedBlocks, toEngine, heap,
          ret, unbuilt, nProposed, made, owed>>

\* ---- identifiers and payloads -------------------------------------------

\* ids.Empty: the parent of the genesis block, and the zero value of vm.preferred
Empty == <<>>

\* the store's lastAccepted before genesis is committed
NoID == <<"undefined">>

\* the codec's format version, the first field of a serialized block
CodecVersion == 0

\* Codec.Marshal(CodecVersion, block): the version, then the serialized fields
\* PrntID, Hght, Tmstmp, Dt in this order
Marshal(b) == <<CodecVersion, b.PrntID, b.Hght, b.Tmstmp, b.Dt>>

\* Codec.Unmarshal succeeds: five fields, the first the known version
CanUnmarshal(bytes) == Len(bytes) = 5 /\ bytes[1] = CodecVersion

\* Unmarshal that reads the parent id and the data from each other's place
UnmarshalSwapped(bytes) ==
    [PrntID |-> bytes[5], Hght |-> bytes[3], Tmstmp |-> bytes[4], Dt |-> bytes[2]]

\* Codec.Unmarshal(bytes, block): the fields of the block
Unmarshal(bytes) ==
    [PrntID |-> bytes[2], Hght |-> bytes[3], Tmstmp |-> bytes[4], Dt |-> bytes[5]]

\* the hash of a byte sequence, taken to be collision free
Hash(bytes) == <<"id", bytes>>

\* Block.ID(): the hash of the block's bytes
ID(b) == Hash(Marshal(b))

\* copy that keeps the slice as it is, without the zero bytes of the array
CopyNoPad(data) == data

\* var arr [dataLen]byte; copy(arr[:], data): the first dataLen bytes of
\* data, the rest of the array left zero
CopyToArr(data) == [i \in 1..dataLen |-> IF i <= Len(data) THEN data[i] ELSE 0]

\* genesis inputs: three bytes, and dataLen + 1 bytes
Short == <<1, 2, 3>>
TooLong == [i \in 1..(dataLen + 1) |-> 9]
GenesisInputs == {Short, TooLong}

\* payload inputs: the n-th payload proposed is n bytes long and holds the
\* bytes n (so the payloads of a run differ from one another), or it is one
\* byte too long
NthPayload(n) == [i \in 1..n |-> n]
PayloadInputs(n) == {NthPayload(n), TooLong}

\* ---- State (state.go), after spec.md 4.2 --------------------------------

EmptyStore == [blocks |-> <<>>, lastAccepted |-> NoID, initialized |-> FALSE]

IsInitialized(s) == s.initialized

SetInitialized(s) == [s EXCEPT !.initialized = TRUE]

\* writes the block keyed by its identifier, replacing what the key held
PutBlock(s, b) == [s EXCEPT !.blocks = (ID(b) :> b) @@ @]

SetLastAccepted(s, id) == [s EXCEPT !.lastAccepted = id]

HasLastAccepted(s) == s.lastAccepted # NoID

GetLastAccepted(s) == s.lastAccepted

StoreHas(s, id) == id \in DOMAIN s.blocks

\* the height of the last accepted block of store s
LastHeight(s) == s.blocks[s.lastAccepted].Hght

\* a stored block is handed back as an object with status Accepted
StoreGetBlock(s, id) == [blk |-> s.blocks[id], status |-> "Accepted"]

\* ---- results -------------------------------------------------------------

NoBlock == [blk |-> <<>>, status |-> "none"]

\* op: the call; err: the error returned ("nil" for none); ref: the heap index
\* of the block object the call returned or was made on (0 for none); was: the
\* status that object had before the call ("none" for a new or no object);
\* arg: the genesis data of an Initialize call, the bytes of a ParseBlock
\* call, the id of a GetBlock call
RetArg(op, err, ref, was, arg) ==
    [op |-> op, err |-> err, ref |-> ref, was |-> was, arg |-> arg]

Ret(op, err, ref, was) == RetArg(op, err, ref, was, <<>>)

\* ---- the VM's helpers ----------------------------------------------------

\* NewBlock that stamps the block with the clock instead of its argument
NewBlockNow(parentID, height, data, timestamp) ==
    [blk |-> [PrntID |-> parentID, Hght |-> height, Tmstmp |-> ClockNow, Dt |-> data],
     status |-> "Processing"]

\* NewBlock: the block with the given fields, status Processing. Tmstmp is
\* timestamp.Unix(); the clock of the model counts seconds already.
NewBlock(parentID, height, data, timestamp) ==
    [blk |-> [PrntID |-> parentID, Hght |-> height, Tmstmp |-> timestamp, Dt |-> data],
     status |-> "Processing"]

\* getBlock succeeds: the id is in verifiedBlocks, or else in the state
Resolvable(vb, s, id) == id \in DOMAIN vb \/ StoreHas(s, id)

\* getBlock: the cached object if there is one, else the state's block
getBlock(vb, hp, s, id) ==
    IF id \in DOMAIN vb THEN hp[vb[id]] ELSE StoreGetBlock(s, id)

\* the capacity of the channel the engine hands to Initialize as toEngine
ChanCap == 1

\* a send that buffers the message whatever the channel holds
NotifyBlockReadyNoDrop(ch) == ch + 1

\* NotifyBlockReady: select { case toEngine <- PendingTxs: ; default: drop }:
\* the message is buffered if the channel has room and dropped if not
NotifyBlockReady(ch) == IF ch < ChanCap THEN ch + 1 ELSE ch

\* delete(m, id)
MapDelete(m, id) == [k \in (DOMAIN m) \ {id} |-> m[k]]

\* ---- Block (block.go), after spec.md 4.1 ---------------------------------

\* the part of the VM a block's transitions read and write
World == [state |-> state, disk |-> disk, preferred |-> preferred,
          verifiedBlocks |-> verifiedBlocks]

\* State.Commit: the buffered writes reach the database
Commit(w) == [w EXCEPT !.disk = w.state]

\* Block.Verify, the checks: the parent resolves and the height is the parent's
\* plus one
BlockVerify(vb, hp, s, b) ==
    IF ~Resolvable(vb, s, b.PrntID) THEN "errMissingParent"
    ELSE IF b.Hght # getBlock(vb, hp, s, b.PrntID).blk.Hght + 1 THEN "errBadHeight"
    ELSE "nil"

\* Block.Verify, the effect of a block that passed: verifiedBlocks[b.ID()] = b,
\* with i the block object
CacheVerified(vb, id, i) == (id :> i) @@ vb

\* Accept that writes again on an object that is Accepted already
BlockAcceptAgain(w, o) ==
    IF o.status = "Rejected" THEN [w |-> w, o |-> o, err |-> "errInvalidTransition"]
    ELSE LET id == ID(o.blk)
             s1 == SetLastAccepted(PutBlock(w.state, o.blk), id)
             w1 == [w EXCEPT !.state = s1, !.preferred = id,
                             !.verifiedBlocks = MapDelete(@, id)]
         IN  [w |-> [w1 EXCEPT !.disk = w1.state],
              o |-> [o EXCEPT !.status = "Accepted"], err |-> "nil"]

\* Accept that does not refuse an object that is Rejected
BlockAcceptAny(w, o) ==
    IF o.status = "Accepted" THEN [w |-> w, o |-> o, err |-> "nil"]
    ELSE LET id == ID(o.blk)
             s1 == SetLastAccepted(PutBlock(w.state, o.blk), id)
             w1 == [w EXCEPT !.state = s1, !.preferred = id,
                             !.verifiedBlocks = MapDelete(@, id)]
         IN  [w |-> [w1 EXCEPT !.disk = w1.state],
              o |-> [o EXCEPT !.status = "Accepted"], err |-> "nil"]

\* Block.Accept on object o: [w: the world after, o: the object after, err]
BlockAccept(w, o) ==
    IF o.status = "Accepted" THEN [w |-> w, o |-> o, err |-> "nil"]
    ELSE IF o.status = "Rejected" THEN [w |-> w, o |-> o, err |-> "errInvalidTransition"]
    ELSE LET id == ID(o.blk)
             s1 == SetLastAccepted(PutBlock(w.state, o.blk), id)
             w1 == [w EXCEPT !.state = s1, !.preferred = id,
                             !.verifiedBlocks = MapDelete(@, id)]
         IN  [w |-> Commit(w1), o |-> [o EXCEPT !.status = "Accepted"], err |-> "nil"]

\* Block.Reject on object o
BlockReject(w, o) ==
    IF o.status = "Rejected" THEN [w |-> w, o |-> o, err |-> "nil"]
    ELSE IF o.status = "Accepted" THEN [w |-> w, o |-> o, err |-> "errInvalidTransition"]
    ELSE [w |-> [w EXCEPT !.verifiedBlocks = MapDelete(@, ID(o.blk))],
          o |-> [o EXCEPT !.status = "Rejected"], err |-> "nil"]

\* ---- Init ----------------------------------------------------------------

Init ==
    /\ disk = EmptyStore
    /\ state = EmptyStore
    /\ up = FALSE
    /\ preferred = Empty
    /\ mempool = <<>>
    /\ verifiedBlocks = <<>>
    /\ toEngine = 0
    /\ heap = <<>>
    /\ ret = Ret("none", "nil", 0, "none")
    /\ unbuilt = <<>>
    /\ nProposed = 0
    /\ made = 0
    /\ owed = 0

\* ---- Initialize and initGenesis ------------------------------------------

\* the length check off by one
GenesisTooLongOffByOne(genesisData) == Len(genesisData) > dataLen + 1

\* len(genesisData) > dataLen
GenesisTooLong(genesisData) == Len(genesisData) > dataLen

\* initGenesis that puts the genesis block and does not accept it
initGenesisNoAccept(w, genesisData) ==
    IF IsInitialized(w.state) THEN [w |-> w, err |-> "nil", blk |-> NoBlock]
    ELSE IF GenesisTooLong(genesisData)
    THEN [w |-> w, err |-> "errBadGenesisBytes", blk |-> NoBlock]
    ELSE LET genesisBlock == NewBlock(Empty, 0, CopyToArr(genesisData), 0)
             w1 == [w EXCEPT !.state = PutBlock(@, genesisBlock.blk)]
             w2 == [w1 EXCEPT !.state = SetInitialized(@)]
         IN  [w |-> [w2 EXCEPT !.disk = w2.state], err |-> "nil", blk |-> genesisBlock]

\* initGenesis that checks the length before it asks whether the state is
\* initialized
initGenesisCheckFirst(w, genesisData) ==
    IF GenesisTooLong(genesisData)
    THEN [w |-> w, err |-> "errBadGenesisBytes", blk |-> NoBlock]
    ELSE IF IsInitialized(w.state) THEN [w |-> w, err |-> "nil", blk |-> NoBlock]
    ELSE LET genesisBlock == NewBlock(Empty, 0, CopyToArr(genesisData), 0)
             w1 == [w EXCEPT !.state = PutBlock(@, genesisBlock.blk)]
             a  == BlockAccept(w1, genesisBlock)
             w2 == [a.w EXCEPT !.state = SetInitialized(@)]
         IN  IF a.err # "nil" THEN [w |-> a.w, err |-> a.err, blk |-> a.o]
             ELSE [w |-> [w2 EXCEPT !.disk = w2.state], err |-> "nil", blk |-> a.o]

\* initGenesis on world w: [w: the world after, err, blk: the genesis object]
initGenesis(w, genesisData) ==
    IF IsInitialized(w.state) THEN [w |-> w, err |-> "nil", blk |-> NoBlock]
    ELSE IF GenesisTooLong(genesisData)
    THEN [w |-> w, err |-> "errBadGenesisBytes", blk |-> NoBlock]
    ELSE LET genesisBlock == NewBlock(Empty, 0, CopyToArr(genesisData), 0)
             w1 == [w EXCEPT !.state = PutBlock(@, genesisBlock.blk)]
             a  == BlockAccept(w1, genesisBlock)
             w2 == [a.w EXCEPT !.state = SetInitialized(@)]
         IN  IF a.err # "nil" THEN [w |-> a.w, err |-> a.err, blk |-> a.o]
             ELSE [w |-> Commit(w2), err |-> "nil", blk |-> a.o]

\* Initialize: a new State over the database, an empty verifiedBlocks, then
\* initGenesis, GetLastAccepted and SetPreference(lastAccepted)
Initialize(genesisData) ==
    /\ ~up
    /\ LET w0 == [state |-> disk, disk |-> disk, preferred |-> preferred,
                  verifiedBlocks |-> <<>>]
           g  == initGenesis(w0, genesisData)
           ok == g.err = "nil" /\ HasLastAccepted(g.w.state)
       IN  /\ state' = g.w.state
           /\ disk' = g.w.disk
           /\ verifiedBlocks' = g.w.verifiedBlocks
           /\ preferred' = IF ok THEN GetLastAccepted(g.w.state) ELSE g.w.preferred
           /\ up' = ok
           /\ ret' = RetArg("Initialize",
                            IF g.err # "nil" THEN g.err
                            ELSE IF ok THEN "nil" ELSE "errNoLastAccepted",
                            0, "none", genesisData)
    /\ UNCHANGED <<mempool, toEngine, heap, unbuilt, nProposed, made>>
    /\ UNCHANGED owed

\* the process ends and a new one starts on the same database: the VM struct
\* is a zero value again, the buffered writes and the block objects are gone
Restart ==
    /\ up
    /\ state' = disk
    /\ up' = FALSE
    /\ preferred' = Empty
    /\ mempool' = <<>>
    /\ verifiedBlocks' = <<>>
    /\ toEngine' = 0
    /\ heap' = <<>>
    /\ ret' = Ret("Restart", "nil", 0, "none")
    /\ unbuilt' = <<>>
    /\ UNCHANGED <<disk, nProposed, made>>
    /\ owed' = 0

\* ---- the mempool -----------------------------------------------------------

\* proposeBlock: mempool = append(mempool, data), then NotifyBlockReady
proposeBlock(data) ==
    /\ mempool' = Append(mempool, data)
    /\ toEngine' = NotifyBlockReady(toEngine)
    /\ unbuilt' = Append(unbuilt, data)
    /\ nProposed' = nProposed + 1

\* proposePayload (the service's entry, spec.md 4.3): a payload longer than
\* dataLen is refused, any other is zero-padded and handed to proposeBlock
ProposePayload(P) ==
    /\ up
    /\ nProposed < MaxProposals
    /\ IF Len(P) > dataLen
       THEN /\ ret' = Ret("ProposePayload", "errBadData", 0, "none")
            /\ UNCHANGED <<mempool, toEngine, unbuilt, nProposed>>
       ELSE /\ proposeBlock(CopyToArr(P))
            /\ ret' = Ret("ProposePayload", "nil", 0, "none")
    /\ UNCHANGED <<disk, state, up, preferred, verifiedBlocks, heap, made>>
    /\ UNCHANGED owed

\* the newest entry instead of the oldest
MempoolBack(m) == m[Len(m)]

\* BuildBlock that does not notify the engine of the payloads that remain
RenotifyNever(m, ch) == ch

\* if len(vm.mempool) > 0 { defer vm.NotifyBlockReady() }, with m the mempool
\* after the payload was taken
Renotify(m, ch) == IF Len(m) > 0 THEN NotifyBlockReady(ch) ELSE ch

\* a call of BuildBlock answers a message the engine has taken, if there is one
Answered(n) == IF n > 0 THEN n - 1 ELSE n

\* value := vm.mempool[0]
MempoolFront(m) == m[1]

\* vm.mempool = vm.mempool[1:]
MempoolRest(m) == Tail(m)

\* the preferred block's own height
ChildHeightSame(preferredHeight) == preferredHeight

\* preferredHeight+1, the height of the block BuildBlock makes
ChildHeight(preferredHeight) == preferredHeight + 1

\* BuildBlock with an empty mempool that also moves the preference back to the
\* last accepted block
BuildBlockEmptyResets ==
    /\ up
    /\ Len(mempool) = 0
    /\ preferred' = GetLastAccepted(state)
    /\ ret' = Ret("BuildBlock", "errNoPendingBlocks", 0, "none")
    /\ UNCHANGED <<disk, state, up, mempool, verifiedBlocks, toEngine,
                   heap, unbuilt, nProposed, made>>
    /\ owed' = Answered(owed)

\* BuildBlock with an empty mempool: errNoPendingBlocks, nothing else
BuildBlockEmpty ==
    /\ up
    /\ Len(mempool) = 0
    /\ ret' = Ret("BuildBlock", "errNoPendingBlocks", 0, "none")
    /\ UNCHANGED <<disk, state, up, preferred, mempool, verifiedBlocks, toEngine,
                   heap, unbuilt, nProposed, made>>
    /\ owed' = Answered(owed)

\* BuildBlock that looks the preferred block up before it takes the payload,
\* and so leaves the mempool as it is when the lookup fails
BuildBlockNoParentKeeps ==
    /\ up
    /\ Len(mempool) > 0
    /\ ~Resolvable(verifiedBlocks, state, preferred)
    /\ ret' = Ret("BuildBlock", "errGetPreferred", 0, "none")
    /\ UNCHANGED <<disk, state, up, preferred, mempool, verifiedBlocks, toEngine,
                   heap, unbuilt, nProposed, made>>
    /\ owed' = Answered(owed)

\* BuildBlock that drops the error of getBlock and returns no block and no
\* error
BuildBlockNoParentSilent ==
    /\ up
    /\ Len(mempool) > 0
    /\ ~Resolvable(verifiedBlocks, state, preferred)
    /\ mempool' = MempoolRest(mempool)
    /\ toEngine' = Renotify(mempool', toEngine)
    /\ ret' = Ret("BuildBlock", "nil", 0, "none")
    /\ UNCHANGED <<disk, state, up, preferred, verifiedBlocks, heap,
                   unbuilt, nProposed, made>>
    /\ owed' = Answered(owed)

\* BuildBlock with a payload pending and a preference that does not resolve:
\* the payload is taken, the deferred notification runs, the error is returned
BuildBlockNoParent ==
    /\ up
    /\ Len(mempool) > 0
    /\ ~Resolvable(verifiedBlocks, state, preferred)
    /\ mempool' = MempoolRest(mempool)
    /\ toEngine' = Renotify(mempool', toEngine)
    /\ ret' = Ret("BuildBlock", "errGetPreferred", 0, "none")
    /\ UNCHANGED <<disk, state, up, preferred, verifiedBlocks, heap,
                   unbuilt, nProposed, made>>
    /\ owed' = Answered(owed)

\* BuildBlock that returns the child it made without the call of Verify
BuildBlockChildUnverified ==
    /\ up
    /\ Len(mempool) > 0
    /\ Resolvable(verifiedBlocks, state, preferred)
    /\ made < MaxInst
    /\  LET t == ClockNow
            value == MempoolFront(mempool)
            preferredBlock == getBlock(verifiedBlocks, heap, state, preferred)
            newBlock == NewBlock(preferred, ChildHeight(preferredBlock.blk.Hght), value, t)
            verr == "nil"
        IN  /\ mempool' = MempoolRest(mempool)
            /\ toEngine' = Renotify(mempool', toEngine)
            /\ IF verr # "nil"
               THEN /\ ret' = Ret("BuildBlock", verr, 0, "none")
                    /\ UNCHANGED <<heap, unbuilt, made>>
               ELSE /\ heap' = Append(heap, newBlock)
                    /\ made' = made + 1
                    /\ unbuilt' = Tail(unbuilt)
                    /\ ret' = Ret("BuildBlock", "nil", Len(heap) + 1, "none")
    /\ UNCHANGED <<disk, state, up, preferred, verifiedBlocks, nProposed>>
    /\ owed' = Answered(owed)

\* BuildBlock with a payload pending and a preference that resolves: the child
\* of the preferred block at the current time, verified (Verify puts a block
\* that passes into verifiedBlocks) and returned
BuildBlockChild ==
    /\ up
    /\ Len(mempool) > 0
    /\ Resolvable(verifiedBlocks, state, preferred)
    /\ made < MaxInst
    /\  LET t == ClockNow
            value == MempoolFront(mempool)
            preferredBlock == getBlock(verifiedBlocks, heap, state, preferred)
            newBlock == NewBlock(preferred, ChildHeight(preferredBlock.blk.Hght), value, t)
            verr == BlockVerify(verifiedBlocks, heap, state, newBlock.blk)
        IN  /\ mempool' = MempoolRest(mempool)
            /\ toEngine' = Renotify(mempool', toEngine)
            /\ IF verr # "nil"
               THEN /\ ret' = Ret("BuildBlock", verr, 0, "none")
                    /\ UNCHANGED <<verifiedBlocks, heap, unbuilt, made>>
               ELSE /\ heap' = Append(heap, newBlock)
                    /\ verifiedBlocks' = CacheVerified(verifiedBlocks, ID(newBlock.blk),
                                                       Len(heap) + 1)
                    /\ made' = made + 1
                    /\ unbuilt' = Tail(unbuilt)
                    /\ ret' = Ret("BuildBlock", "nil", Len(heap) + 1, "none")
    /\ UNCHANGED <<disk, state, up, preferred, nProposed>>
    /\ owed' = Answered(owed)

BuildBlock == BuildBlockEmpty \/ BuildBlockNoParent \/ BuildBlockChild

\* ---- the engine's calls ----------------------------------------------------

\* the ids the engine may name: the empty id, the ids of the block objects it
\* holds and of the stored blocks
KnownIDs == {Empty} \cup {ID(heap[i].blk) : i \in 1..Len(heap)} \cup DOMAIN state.blocks

\* SetPreference: vm.preferred = id, whatever id is
SetPreference(id) ==
    /\ up
    /\ preferred' = id
    /\ ret' = Ret("SetPreference", "nil", 0, "none")
    /\ UNCHANGED <<disk, state, up, mempool, verifiedBlocks, toEngine, heap,
                   unbuilt, nProposed, made>>
    /\ UNCHANGED owed

\* GetBlock that asks the state before verifiedBlocks
GetBlockStoreFirst(blkID) ==
    /\ up
    /\ ret' = IF StoreHas(state, blkID)
              THEN RetArg("GetBlock", "nil", 0, StoreGetBlock(state, blkID).status, blkID)
              ELSE IF blkID \in DOMAIN verifiedBlocks
              THEN RetArg("GetBlock", "nil", verifiedBlocks[blkID],
                          heap[verifiedBlocks[blkID]].status, blkID)
              ELSE RetArg("GetBlock", "errNotFound", 0, "none", blkID)
    /\ UNCHANGED <<disk, state, up, preferred, mempool, verifiedBlocks, toEngine,
                   heap, unbuilt, nProposed, made>>
    /\ UNCHANGED owed

\* GetBlock / getBlock: the object verifiedBlocks holds for the id if there is
\* one, else the state's block (a new object, ref 0, with status Accepted),
\* else the state's error
GetBlock(blkID) ==
    /\ up
    /\ ret' = IF blkID \in DOMAIN verifiedBlocks
              THEN RetArg("GetBlock", "nil", verifiedBlocks[blkID],
                          heap[verifiedBlocks[blkID]].status, blkID)
              ELSE IF StoreHas(state, blkID)
              THEN RetArg("GetBlock", "nil", 0, StoreGetBlock(state, blkID).status, blkID)
              ELSE RetArg("GetBlock", "errNotFound", 0, "none", blkID)
    /\ UNCHANGED <<disk, state, up, preferred, mempool, verifiedBlocks, toEngine,
                   heap, unbuilt, nProposed, made>>
    /\ UNCHANGED owed

\* a block made by another node: a child of the last accepted block with an
\* all-zero payload
ForeignBlocks ==
    IF ~HasLastAccepted(state) THEN {}
    ELSE {[PrntID |-> GetLastAccepted(state), Hght |-> LastHeight(state) + 1,
           Tmstmp |-> ClockNow, Dt |-> CopyToArr(<<>>)]}

\* the byte sequences the engine hands to ParseBlock: the bytes of the last
\* accepted block, of the block objects it holds and of a block made by
\* another node, and a sequence that is no block
ParseInputs ==
    {Marshal(state.blocks[id]) : id \in DOMAIN state.blocks \cap {GetLastAccepted(state)}}
        \cup {Marshal(heap[i].blk) : i \in 1..Len(heap)}
        \cup {Marshal(b) : b \in ForeignBlocks}
        \cup {<<CodecVersion>>}

\* ParseBlock that returns the parsed block without asking getBlock
ParseBlockFresh(bytes) ==
    /\ up
    /\ IF ~CanUnmarshal(bytes)
       THEN /\ ret' = RetArg("ParseBlock", "errUnmarshal", 0, "none", bytes)
            /\ UNCHANGED <<heap, made>>
       ELSE /\ made < MaxInst
            /\ made' = made + 1
            /\ heap' = Append(heap, [blk |-> Unmarshal(bytes), status |-> "Processing"])
            /\ ret' = RetArg("ParseBlock", "nil", Len(heap) + 1, "none", bytes)
    /\ UNCHANGED <<disk, state, up, preferred, mempool, verifiedBlocks, toEngine,
                   unbuilt, nProposed>>
    /\ UNCHANGED owed

\* ParseBlock: the bytes that do not unmarshal are refused; a block whose id
\* getBlock resolves is returned as getBlock returns it (the cached object, or
\* the state's block as a new object with status Accepted); any other is
\* returned as a new object with status Processing
ParseBlock(bytes) ==
    /\ up
    /\ IF ~CanUnmarshal(bytes)
       THEN /\ ret' = RetArg("ParseBlock", "errUnmarshal", 0, "none", bytes)
            /\ UNCHANGED <<heap, made>>
       ELSE LET block == [blk |-> Unmarshal(bytes), status |-> "Processing"]
                id == Hash(bytes)
            IN  IF id \in DOMAIN verifiedBlocks
                THEN /\ ret' = RetArg("ParseBlock", "nil", verifiedBlocks[id],
                                      heap[verifiedBlocks[id]].status, bytes)
                     /\ UNCHANGED <<heap, made>>
                ELSE /\ made < MaxInst
                     /\ made' = made + 1
                     /\ heap' = Append(heap, IF StoreHas(state, id)
                                             THEN StoreGetBlock(state, id)
                                             ELSE block)
                     /\ ret' = RetArg("ParseBlock", "nil", Len(heap) + 1, "none", bytes)
    /\ UNCHANGED <<disk, state, up, preferred, mempool, verifiedBlocks, toEngine,
                   unbuilt, nProposed>>
    /\ UNCHANGED owed

\* the engine verifies block object i; a block that passes enters verifiedBlocks
Verify(i) ==
    /\ up
    /\ LET o == heap[i]
           verr == BlockVerify(verifiedBlocks, heap, state, o.blk)
       IN  /\ verifiedBlocks' = IF verr = "nil"
                                THEN CacheVerified(verifiedBlocks, ID(o.blk), i)
                                ELSE verifiedBlocks
           /\ ret' = Ret("Verify", verr, i, o.status)
    /\ UNCHANGED <<disk, state, up, preferred, mempool, toEngine, heap,
                   unbuilt, nProposed, made>>
    /\ UNCHANGED owed

\* the engine accepts block object i
Accept(i) ==
    /\ up
    /\ LET a == BlockAccept(World, heap[i])
       IN  /\ state' = a.w.state
           /\ disk' = a.w.disk
           /\ preferred' = a.w.preferred
           /\ verifiedBlocks' = a.w.verifiedBlocks
           /\ heap' = [heap EXCEPT ![i] = a.o]
           /\ ret' = Ret("Accept", a.err, i, heap[i].status)
    /\ UNCHANGED <<up, mempool, toEngine, unbuilt, nProposed, made>>
    /\ UNCHANGED owed

\* the engine rejects block object i
Reject(i) ==
    /\ up
    /\ LET r == BlockReject(World, heap[i])
       IN  /\ state' = r.w.state
           /\ disk' = r.w.disk
           /\ preferred' = r.w.preferred
           /\ verifiedBlocks' = r.w.verifiedBlocks
           /\ heap' = [heap EXCEPT ![i] = r.o]
           /\ ret' = Ret("Reject", r.err, i, heap[i].status)
    /\ UNCHANGED <<up, mempool, toEngine, unbuilt, nProposed, made>>
    /\ UNCHANGED owed

\* the engine takes the buffered PendingTxs message from the channel and
\* keeps no account of it
EngineDrain ==
    /\ up
    /\ toEngine > 0
    /\ toEngine' = toEngine - 1
    /\ ret' = Ret("EngineDrain", "nil", 0, "none")
    /\ UNCHANGED <<disk, state, up, preferred, mempool, verifiedBlocks, heap,
                   unbuilt, nProposed, made>>
    /\ UNCHANGED owed

\* ---- the specification -----------------------------------------------------

Next ==
    \/ \E g \in GenesisInputs : Initialize(g)
    \/ Restart
    \/ \E P \in PayloadInputs(nProposed + 1) : ProposePayload(P)
    \/ BuildBlock
    \/ \E id \in KnownIDs : SetPreference(id)
    \/ \E i \in 1..Len(heap) : Verify(i)
    \/ \E i \in 1..Len(heap) : Accept(i)
    \/ \E i \in 1..Len(heap) : Reject(i)
    \/ EngineDrain

Spec == Init /\ [][Next]_vars

\* ---- a crash inside initGenesis ---------------------------------------------

\* the statements of initGenesis after the length check, of which a process
\* that dies has completed the first k: PutBlock, Accept, SetInitialized (the
\* fourth, Commit, ends initGenesis)
CrashPoints == {0, 1, 2, 3}

\* the world after the first k of these statements
initGenesisUpTo(w, genesisData, k) ==
    LET genesisBlock == NewBlock(Empty, 0, CopyToArr(genesisData), 0)
        w1 == [w EXCEPT !.state = PutBlock(@, genesisBlock.blk)]
        a  == BlockAccept(w1, genesisBlock)
        w3 == [a.w EXCEPT !.state = SetInitialized(@)]
    IN  CASE k = 0 -> w
          [] k = 1 -> w1
          [] k = 2 -> a.w
          [] OTHER -> w3

\* Initialize on an uninitialized store whose process dies inside initGenesis
\* after k statements: what was committed stays in the database, the buffered
\* writes and the VM are gone
InitializeCrash(genesisData, k) ==
    /\ ~up
    /\ ~IsInitialized(disk)
    /\ ~GenesisTooLong(genesisData)
    /\ LET w0 == [state |-> disk, disk |-> disk, preferred |-> preferred,
                  verifiedBlocks |-> <<>>]
           w  == initGenesisUpTo(w0, genesisData, k)
       IN  /\ disk' = w.disk
           /\ state' = w.disk
    /\ up' = FALSE
    /\ preferred' = Empty
    /\ mempool' = <<>>
    /\ verifiedBlocks' = <<>>
    /\ toEngine' = 0
    /\ heap' = <<>>
    /\ unbuilt' = <<>>
    /\ ret' = RetArg("Crash", "nil", 0, "none", genesisData)
    /\ UNCHANGED <<nProposed, made>>
    /\ owed' = 0

NextCrash ==
    \/ Next
    \/ \E g \in GenesisInputs, k \in CrashPoints : InitializeCrash(g, k)

SpecCrash == Init /\ [][NextCrash]_vars

\* ---- the calls on well-formed inputs -------------------------------------------

\* the calls of Next on well-formed inputs, without the engine's reads of the
\* channel
NextCore ==
    \/ Initialize(Short)
    \/ Restart
    \/ ProposePayload(NthPayload(nProposed + 1))
    \/ BuildBlock
    \/ \E id \in KnownIDs : SetPreference(id)
    \/ \E i \in 1..Len(heap) : Verify(i)
    \/ \E i \in 1..Len(heap) : Accept(i)
    \/ \E i \in 1..Len(heap) : Reject(i)

\* ---- the engine also parses blocks --------------------------------------------

\* One run of the node, without Shutdown. The engine of this specification
\* leaves the preference where Initialize and Accept put it, so the preferred
\* block always resolves and BuildBlock is its two other branches.
NextParse ==
    \/ Initialize(Short)
    \/ ProposePayload(NthPayload(nProposed + 1))
    \/ BuildBlockEmpty
    \/ BuildBlockChild
    \/ \E i \in 1..Len(heap) : Verify(i)
    \/ \E i \in 1..Len(heap) : Accept(i)
    \/ \E i \in 1..Len(heap) : Reject(i)
    \/ \E bytes \in ParseInputs : ParseBlock(bytes)

SpecParse == Init /\ [][NextParse]_vars

\* ---- the engine also looks blocks up ------------------------------------------

NextGet ==
    \/ NextCore
    \/ \E id \in KnownIDs : GetBlock(id)

SpecGet == Init /\ [][NextGet]_vars

\* ---- an engine that answers the messages it takes ------------------------------

\* the engine takes the buffered PendingTxs message from the channel and owes
\* the VM a call of BuildBlock for it
EngineTake ==
    /\ up
    /\ toEngine > 0
    /\ toEngine' = toEngine - 1
    /\ owed' = owed + 1
    /\ ret' = Ret("EngineDrain", "nil", 0, "none")
    /\ UNCHANGED <<disk, state, up, preferred, mempool, verifiedBlocks, heap,
                   unbuilt, nProposed, made>>

\* the call of BuildBlock the engine makes for a message it has taken
EngineBuild == owed > 0 /\ BuildBlock

\* the calls that read or write the mempool, the channel and the preference
NextNotify ==
    \/ Initialize(Short)
    \/ Restart
    \/ ProposePayload(NthPayload(nProposed + 1))
    \/ BuildBlock
    \/ \E id \in KnownIDs : SetPreference(id)
    \/ EngineTake

\* the engine takes a message that waits in the channel, and calls BuildBlock
\* for a message it has taken
SpecNotify ==
    Init /\ [][NextNotify]_vars /\ WF_vars(EngineTake) /\ WF_vars(EngineBuild)

\* ---- properties -------------------------------------------------------------

\* P followed by zero bytes up to dataLen bytes
Padded(P) == P \o [i \in 1..(dataLen - Len(P)) |-> 0]

\* the payload of the latest ProposePayload call that was taken
LastProposed == NthPayload(nProposed)

\* the step is a call of op
Called(op) == ret'.op = op

\* C1: BuildBlock called while the mempool is empty fails with
\* errNoPendingBlocks and changes neither preferred nor the store (the stored
\* blocks, lastAccepted and the initialized flag, buffered or committed).
C1_EmptyBuild ==
    [][(Called("BuildBlock") /\ Len(mempool) = 0) =>
          /\ ret'.err = "errNoPendingBlocks"
          /\ ret'.ref = 0
          /\ preferred' = preferred
          /\ state' = state
          /\ disk' = disk]_vars

\* C1: a BuildBlock call on an initialized VM has failed with errNoPendingBlocks
C1_Witness ==
    /\ ret.op = "BuildBlock"
    /\ ret.err = "errNoPendingBlocks"
    /\ IsInitialized(disk)
    /\ mempool = <<>>

\* C2 as stated: the k-th successful BuildBlock returns a block with the k-th
\* proposed payload (the head of unbuilt: the proposals less one per block
\* returned).
C2_Original ==
    [][(Called("BuildBlock") /\ ret'.err = "nil") =>
          heap'[ret'.ref].blk.Dt = unbuilt[1]]_vars

\* C2 amended: every BuildBlock that finds a payload removes the oldest
\* entry of the mempool; if it succeeds its block holds that payload and has
\* the preferred block as parent; while no BuildBlock has failed after taking
\* a payload (unbuilt = mempool) the k-th successful BuildBlock returns the
\* k-th proposed payload; and a BuildBlock right after the accept of a
\* Processing block builds on that block.
C2_FIFO ==
    [][(Called("BuildBlock") /\ Len(mempool) > 0) =>
          /\ mempool' = Tail(mempool)
          /\ ret'.err = "nil" =>
                /\ heap'[ret'.ref].blk.Dt = mempool[1]
                /\ heap'[ret'.ref].blk.PrntID = preferred
                /\ unbuilt = mempool => heap'[ret'.ref].blk.Dt = unbuilt[1]
                /\ (ret.op = "Accept" /\ ret.was = "Processing") =>
                      heap'[ret'.ref].blk.PrntID = ID(heap[ret.ref].blk)]_vars

\* C2: two payloads were proposed, the first block holds the first and was
\* accepted, and BuildBlock has just returned the second block, which holds
\* the second payload and has the first block as parent
C2_Witness ==
    /\ ret.op = "BuildBlock"
    /\ ret.err = "nil"
    /\ ret.ref = 2
    /\ heap[1].status = "Accepted"
    /\ heap[1].blk.Dt = Padded(NthPayload(1))
    /\ heap[2].blk.Dt = Padded(NthPayload(2))
    /\ heap[2].blk.PrntID = ID(heap[1].blk)

\* C3 as stated: in every state, a ProposePayload(P) that is taken and is
\* followed at once by BuildBlock yields a block whose payload is P padded.
C3_Original ==
    [][(ret.op = "ProposePayload" /\ ret.err = "nil" /\ Called("BuildBlock")) =>
          /\ ret'.err = "nil"
          /\ heap'[ret'.ref].blk.Dt = Padded(LastProposed)]_vars

\* C3 amended: a ProposePayload(P) that is taken and is followed at once by
\* BuildBlock yields a block whose payload is P padded with zero bytes to
\* dataLen bytes when P is the only pending payload and the preferred block
\* resolves; with older payloads pending a block that is built holds the oldest.
C3_ProposeThenBuild ==
    [][(ret.op = "ProposePayload" /\ ret.err = "nil" /\ Called("BuildBlock")) =>
          /\ (Len(mempool) = 1 /\ Resolvable(verifiedBlocks, state, preferred)) =>
                /\ ret'.err = "nil"
                /\ heap'[ret'.ref].blk.Dt = Padded(LastProposed)
          /\ ret'.err = "nil" =>
                /\ Len(heap'[ret'.ref].blk.Dt) = dataLen
                /\ heap'[ret'.ref].blk.Dt = mempool[1]]_vars

\* C3: BuildBlock has returned a block that holds the payload proposed last,
\* which is shorter than dataLen, and no payload is pending
C3_Witness ==
    /\ ret.op = "BuildBlock"
    /\ ret.err = "nil"
    /\ nProposed > 0
    /\ Len(LastProposed) < dataLen
    /\ heap[ret.ref].blk.Dt = Padded(LastProposed)
    /\ mempool = <<>>

\* C4: Accept on a Processing block object sets its status to Accepted,
\* writes the block to the store, commits, and sets lastAccepted and
\* preferred to the block's id; the accept of the genesis block in initGenesis
\* does the same, so that Initialize on an empty store with genesis data that
\* fits ends with preferred = lastAccepted = the genesis block's id.
C4_Accept ==
    /\ [][(Called("Accept") /\ ret'.was = "Processing") =>
             LET i == ret'.ref
                 id == ID(heap[i].blk)
             IN  /\ heap[i].status = "Processing"
                 /\ ret'.err = "nil"
                 /\ heap'[i].status = "Accepted"
                 /\ StoreHas(disk', id)
                 /\ disk'.blocks[id] = heap[i].blk
                 /\ disk'.lastAccepted = id
                 /\ state' = disk'
                 /\ preferred' = id]_vars
    /\ [][(Called("Initialize") /\ ~IsInitialized(disk) /\ Len(ret'.arg) <= dataLen) =>
             /\ HasLastAccepted(disk')
             /\ StoreHas(disk', disk'.lastAccepted)
             /\ disk'.blocks[disk'.lastAccepted].PrntID = Empty
             /\ preferred' = disk'.lastAccepted]_vars

\* C4: Accept was called on a Processing object, which is Accepted now, and
\* preferred and lastAccepted are its id
C4_Witness ==
    /\ ret.op = "Accept"
    /\ ret.was = "Processing"
    /\ heap[ret.ref].status = "Accepted"
    /\ preferred = ID(heap[ret.ref].blk)
    /\ disk.lastAccepted = ID(heap[ret.ref].blk)
    /\ heap[ret.ref].blk.Hght > 0

\* the blocks of store s that have no parent
GenesisBlocks(s) == {id \in DOMAIN s.blocks : s.blocks[id].PrntID = Empty}

\* C5: Accept on a block object that is Accepted already returns nil and
\* leaves the store (blocks, lastAccepted, initialized; buffered and
\* committed), preferred and the object as they are, also when another block
\* was accepted in between; and on an initialized store SetInitialized
\* followed by Commit changes nothing and the store holds one genesis block.
C5_Idempotent ==
    /\ [][(Called("Accept") /\ ret'.was = "Accepted") =>
             /\ ret'.err = "nil"
             /\ disk' = disk
             /\ state' = state
             /\ preferred' = preferred
             /\ heap' = heap]_vars
    /\ [](IsInitialized(state) =>
             /\ Commit([World EXCEPT !.state = SetInitialized(@)]) = World
             /\ Cardinality(GenesisBlocks(disk)) = 1)

\* C5: Accept was called again on an Accepted object after another block
\* was accepted, and lastAccepted is still that other block
C5_Witness ==
    /\ ret.op = "Accept"
    /\ ret.was = "Accepted"
    /\ ret.err = "nil"
    /\ disk.lastAccepted # ID(heap[ret.ref].blk)
    /\ \E j \in 1..Len(heap) : j # ret.ref /\ disk.lastAccepted = ID(heap[j].blk)

\* C6: the status of a block object changes only from Processing, to
\* Accepted or to Rejected; Accept on a Rejected object and Reject on an
\* Accepted object return errInvalidTransition and change neither the object
\* nor the store nor the cache.
C6_Terminal ==
    /\ [][\A i \in 1..Len(heap) :
             (i <= Len(heap') /\ heap'[i].status # heap[i].status) =>
                 /\ heap[i].status = "Processing"
                 /\ heap'[i].status \in {"Accepted", "Rejected"}
                 /\ heap'[i].blk = heap[i].blk]_vars
    /\ [][((Called("Accept") /\ ret'.was = "Rejected")
              \/ (Called("Reject") /\ ret'.was = "Accepted")) =>
             /\ ret'.err = "errInvalidTransition"
             /\ heap' = heap
             /\ disk' = disk
             /\ state' = state
             /\ verifiedBlocks' = verifiedBlocks]_vars

\* C6: Accept was called on a Rejected object and failed, and the object is
\* still Rejected and not stored
C6_Witness ==
    /\ ret.op = "Accept"
    /\ ret.was = "Rejected"
    /\ ret.err = "errInvalidTransition"
    /\ heap[ret.ref].status = "Rejected"
    /\ ~StoreHas(disk, ID(heap[ret.ref].blk))

\* the blocks the VM knows: the stored ones and those of the block objects
KnownBlocks ==
    {disk.blocks[id] : id \in DOMAIN disk.blocks} \cup {heap[i].blk : i \in 1..Len(heap)}

\* every known block whose parent is known is one higher than its parent,
\* and a block without a parent has height 0
HeightsLinked ==
    \A b \in KnownBlocks :
        /\ b.PrntID = Empty => b.Hght = 0
        /\ \A q \in KnownBlocks : b.PrntID = ID(q) => b.Hght = q.Hght + 1

C8_Genesis ==
    [][(Called("Initialize") /\ disk = EmptyStore /\ Len(ret'.arg) <= dataLen) =>
          /\ ret'.err = "nil"
          /\ up'
          /\ state' = disk'
          /\ IsInitialized(disk')
          /\ Cardinality(DOMAIN disk'.blocks) = 1
          /\ LET id == GetLastAccepted(disk')
                 genesis == [PrntID |-> Empty, Hght |-> 0, Tmstmp |-> 0,
                             Dt |-> Padded(ret'.arg)]
             IN  /\ DOMAIN disk'.blocks = {id}
                 /\ disk'.blocks[id] = genesis
                 /\ id = ID(genesis)
                 /\ getBlock(verifiedBlocks', heap', state', id).status = "Accepted"
                 /\ preferred' = id]_vars

\* C8: Initialize([1, 2, 3]) has just returned nil on a store that now holds
\* the genesis block alone
C8_Witness ==
    /\ ret.op = "Initialize"
    /\ ret.err = "nil"
    /\ ret.arg = <<1, 2, 3>>
    /\ Cardinality(DOMAIN disk.blocks) = 1
    /\ disk.blocks[disk.lastAccepted].Dt[4] = 0
    /\ preferred = disk.lastAccepted

\* C9: Initialize on an initialized store returns nil for any genesis data,
\* leaves the stored blocks, lastAccepted and the initialized flag as they
\* were, and sets preferred to lastAccepted; a restart loses nothing of the
\* store, so lastAccepted is the id LastAccepted returned before the restart.
C9_Restart ==
    /\ [][(Called("Initialize") /\ IsInitialized(disk)) =>
             /\ ret'.err = "nil"
             /\ up'
             /\ disk' = disk
             /\ state' = disk
             /\ GetLastAccepted(state') = GetLastAccepted(disk)
             /\ preferred' = GetLastAccepted(disk)]_vars
    /\ [][Called("Restart") =>
             /\ disk' = disk
             /\ state' = state
             /\ GetLastAccepted(disk') = GetLastAccepted(state)]_vars

\* C9: Initialize was called with genesis data that is too long on a store
\* that holds accepted blocks beyond genesis, and returned nil
C9_Witness ==
    /\ ret.op = "Initialize"
    /\ ret.err = "nil"
    /\ Len(ret.arg) > dataLen
    /\ Cardinality(DOMAIN disk.blocks) > 1
    /\ preferred = disk.lastAccepted
    /\ LastHeight(disk) > 0

\* C10: Initialize on an uninitialized store with genesis data longer than
\* dataLen returns errBadGenesisBytes and persists nothing: no block,
\* lastAccepted undefined, the initialized flag unset, buffered or committed.
C10_BadGenesis ==
    [][(Called("Initialize") /\ ~IsInitialized(disk) /\ Len(ret'.arg) > dataLen) =>
          /\ ret'.err = "errBadGenesisBytes"
          /\ ~up'
          /\ disk' = EmptyStore
          /\ state' = EmptyStore]_vars

\* C10: Initialize has failed with errBadGenesisBytes on genesis data of
\* dataLen + 1 bytes and the store is empty
C10_Witness ==
    /\ ret.op = "Initialize"
    /\ ret.err = "errBadGenesisBytes"
    /\ Len(ret.arg) = dataLen + 1
    /\ disk = EmptyStore
    /\ state = EmptyStore

\* C11 as stated: when the process dies inside initGenesis before the final
\* commit, the database is as if genesis never ran (no block, lastAccepted
\* undefined, the initialized flag unset), and the Initialize that follows
\* returns nil and leaves a single genesis block.
C11_Original ==
    /\ [][(Called("Crash") /\ disk = EmptyStore) => disk' = EmptyStore]_vars
    /\ [][(Called("Initialize") /\ ret.op = "Crash" /\ Len(ret'.arg) <= dataLen) =>
             /\ ret'.err = "nil"
             /\ IsInitialized(disk')
             /\ Cardinality(DOMAIN disk'.blocks) = 1]_vars

\* C11: the process has died inside initGenesis on a store that was empty,
\* and the database holds the genesis block and lastAccepted with the
\* initialized flag unset
C11_Witness ==
    /\ ret.op = "Crash"
    /\ ~IsInitialized(disk)
    /\ HasLastAccepted(disk)
    /\ Cardinality(DOMAIN disk.blocks) = 1

\* C12: BuildBlock called with a payload pending while preferred is in
\* neither verifiedBlocks nor the state fails with the error of the preferred
\* block's lookup ("couldn't get preferred block") and returns no block: no
\* block object is made and none enters verifiedBlocks or the store.
C12_MissingParent ==
    [][(Called("BuildBlock") /\ Len(mempool) > 0
          /\ preferred \notin DOMAIN verifiedBlocks
          /\ preferred \notin DOMAIN state.blocks) =>
          /\ ret'.err = "errGetPreferred"
          /\ ret'.ref = 0
          /\ heap' = heap
          /\ made' = made
          /\ verifiedBlocks' = verifiedBlocks
          /\ state' = state
          /\ disk' = disk]_vars

\* C12: BuildBlock has failed on a preference that names a block object the
\* engine holds but that is neither cached nor stored
C12_Witness ==
    /\ ret.op = "BuildBlock"
    /\ ret.err = "errGetPreferred"
    /\ preferred # Empty
    /\ preferred \notin DOMAIN verifiedBlocks
    /\ preferred \notin DOMAIN state.blocks
    /\ \E i \in 1..Len(heap) : ID(heap[i].blk) = preferred

\* what ParseBlock does on bytes that unmarshal: the cached object when the id
\* is in verifiedBlocks, else the stored block as an object with status
\* Accepted, else the parsed block as an object with status Processing
ParseReturnsKnown ==
    [][(Called("ParseBlock") /\ CanUnmarshal(ret'.arg)) =>
          LET id == Hash(ret'.arg)
          IN  /\ ret'.err = "nil"
              /\ id \in DOMAIN verifiedBlocks =>
                    /\ ret'.ref = verifiedBlocks[id]
                    /\ heap' = heap
              /\ id \notin DOMAIN verifiedBlocks =>
                    /\ ret'.ref = Len(heap) + 1
                    /\ heap' = Append(heap,
                                 IF id \in DOMAIN state.blocks
                                 THEN [blk |-> state.blocks[id], status |-> "Accepted"]
                                 ELSE [blk |-> Unmarshal(ret'.arg), status |-> "Processing"])
              /\ ID(heap'[ret'.ref].blk) = id]_vars

\* no two block objects handed to the engine have the same id
OneInstancePerID ==
    \A i, j \in 1..Len(heap) : ID(heap[i].blk) = ID(heap[j].blk) => i = j

\* C13 as stated: ParseBlock returns the known instance when the id resolves
\* and a new Processing block otherwise, and the engine is never handed two
\* different instances of the same block id.
C13_Original ==
    /\ ParseReturnsKnown
    /\ [](OneInstancePerID)

\* C13 amended: ParseBlock returns the cached object, and makes no new one,
\* when the id is in verifiedBlocks; it returns the stored block as an object
\* with status Accepted when the id is only in the state, and the parsed block
\* as a new object with status Processing otherwise; bytes that do not
\* unmarshal are refused; ParseBlock changes neither verifiedBlocks nor the
\* store. A block that is not yet in verifiedBlocks is handed out as a new
\* object on every call.
C13_Parse ==
    /\ ParseReturnsKnown
    /\ [][Called("ParseBlock") =>
             /\ ~CanUnmarshal(ret'.arg) =>
                   (ret'.err = "errUnmarshal" /\ ret'.ref = 0 /\ heap' = heap)
             /\ verifiedBlocks' = verifiedBlocks
             /\ state' = state
             /\ disk' = disk
             /\ preferred' = preferred
             /\ mempool' = mempool]_vars

\* C13: ParseBlock has returned the object that verifiedBlocks holds for the
\* id of the bytes, a Processing block, and no second object of that id exists
C13_Witness ==
    /\ ret.op = "ParseBlock"
    /\ ret.err = "nil"
    /\ ret.was = "Processing"
    /\ Hash(ret.arg) \in DOMAIN verifiedBlocks
    /\ ret.ref = verifiedBlocks[Hash(ret.arg)]
    /\ OneInstancePerID

\* C14: GetBlock returns the object verifiedBlocks holds for the id when there
\* is one, whether or not the state holds the block too; else the state's
\* block, with status Accepted; else an error; and it changes nothing.
C14_Resolve ==
    [][Called("GetBlock") =>
          LET id == ret'.arg
          IN  /\ id \in DOMAIN verifiedBlocks =>
                    /\ ret'.err = "nil"
                    /\ ret'.ref = verifiedBlocks[id]
                    /\ ret'.was = heap[verifiedBlocks[id]].status
              /\ (id \notin DOMAIN verifiedBlocks /\ id \in DOMAIN state.blocks) =>
                    /\ ret'.err = "nil"
                    /\ ret'.ref = 0
                    /\ ret'.was = "Accepted"
              /\ (id \notin DOMAIN verifiedBlocks /\ id \notin DOMAIN state.blocks) =>
                    /\ ret'.err = "errNotFound"
                    /\ ret'.ref = 0
              /\ UNCHANGED <<disk, state, up, preferred, mempool, verifiedBlocks,
                             toEngine, heap, unbuilt, nProposed, made, owed>>]_vars

\* C14: GetBlock has returned the cached object for an id that the state
\* holds as well
C14_Witness ==
    /\ ret.op = "GetBlock"
    /\ ret.err = "nil"
    /\ ret.ref > 0
    /\ ret.arg \in DOMAIN verifiedBlocks
    /\ ret.arg \in DOMAIN state.blocks

C16_OneSlot ==
    /\ [](toEngine \in {0, 1})
    /\ []((up /\ nProposed < MaxProposals) =>
            ENABLED ProposePayload(NthPayload(nProposed + 1)))
    /\ []((up /\ made < MaxInst) => ENABLED BuildBlock)
    /\ [][(Called("ProposePayload") /\ ret'.err = "nil") =>
             /\ Len(mempool') = Len(mempool) + 1
             /\ toEngine' = 1
             /\ toEngine = 1 => toEngine' = toEngine]_vars
    /\ [][Called("BuildBlock") =>
             /\ Len(mempool) > 1 => toEngine' = 1
             /\ Len(mempool) <= 1 => toEngine' = toEngine]_vars

\* C16: a second payload was proposed and the channel holds one message
C16_Witness ==
    /\ ret.op = "ProposePayload"
    /\ ret.err = "nil"
    /\ Len(mempool) = 2
    /\ toEngine = 1

\* C17 as stated: a successful BuildBlock leaves verifiedBlocks as it was.
C17_Original ==
    [][(Called("BuildBlock") /\ ret'.err = "nil") =>
          verifiedBlocks' = verifiedBlocks]_vars

\* C17 amended: a successful BuildBlock puts the block it returns, and no
\* other, into verifiedBlocks (the Verify it calls does, as it does when the
\* engine calls it); a BuildBlock that fails leaves verifiedBlocks as it was.
C17_BuildCaches ==
    /\ [][(Called("BuildBlock") /\ ret'.err = "nil") =>
             LET id == ID(heap'[ret'.ref].blk)
             IN  /\ DOMAIN verifiedBlocks' = DOMAIN verifiedBlocks \cup {id}
                 /\ verifiedBlocks'[id] = ret'.ref
                 /\ \A k \in DOMAIN verifiedBlocks \ {id} :
                        verifiedBlocks'[k] = verifiedBlocks[k]
                 /\ getBlock(verifiedBlocks', heap', state', id) = heap'[ret'.ref]]_vars
    /\ [][(Called("BuildBlock") /\ ret'.err # "nil") =>
             verifiedBlocks' = verifiedBlocks]_vars

\* C17: BuildBlock has returned a block, and verifiedBlocks holds it before
\* the engine has called anything else
C17_Witness ==
    /\ ret.op = "BuildBlock"
    /\ ret.err = "nil"
    /\ ID(heap[ret.ref].blk) \in DOMAIN verifiedBlocks
    /\ verifiedBlocks[ID(heap[ret.ref].blk)] = ret.ref
    /\ heap[ret.ref].status = "Processing"

\* C18 as stated: verifiedBlocks holds exactly the blocks that passed
\* verification and are still Processing (every block object of this model
\* passed Verify when BuildBlock made it), the store changes its blocks only
\* by an accept, and a rejected block is not in the store.
C18_Original ==
    /\ [](\A id \in DOMAIN verifiedBlocks :
            /\ verifiedBlocks[id] \in 1..Len(heap)
            /\ ID(heap[verifiedBlocks[id]].blk) = id
            /\ heap[verifiedBlocks[id]].status = "Processing")
    /\ [](\A i \in 1..Len(heap) :
            heap[i].status = "Processing" =>
                (ID(heap[i].blk) \in DOMAIN verifiedBlocks
                    /\ verifiedBlocks[ID(heap[i].blk)] = i))
    /\ [](\A i \in 1..Len(heap) :
            heap[i].status = "Rejected" =>
                (~StoreHas(state, ID(heap[i].blk)) /\ ~StoreHas(disk, ID(heap[i].blk))))
    /\ [][disk'.blocks # disk.blocks =>
             (Called("Initialize") \/ (Called("Accept") /\ ret'.err = "nil"))]_vars

\* C18: the engine has called Verify on a block object after its Accept, and
\* verifiedBlocks holds the accepted block
C18_Witness ==
    /\ ret.op = "Verify"
    /\ ret.err = "nil"
    /\ ret.was = "Accepted"
    /\ ID(heap[ret.ref].blk) \in DOMAIN verifiedBlocks
    /\ StoreHas(disk, ID(heap[ret.ref].blk))

\* C19: whenever the mempool is not empty, a message waits in the channel or
\* the engine has taken one that it has not yet answered with a call of
\* BuildBlock; and an engine that takes the messages and answers each with a
\* call of BuildBlock empties the mempool.
C19_NoLostWakeup ==
    /\ []((up /\ Len(mempool) > 0) => (toEngine > 0 \/ owed > 0))
    /\ ((Len(mempool) > 0) ~> (Len(mempool) = 0))

\* C19: a BuildBlock call has failed and left a payload in the mempool, and
\* the message for it waits in the channel
C19_Witness ==
    /\ ret.op = "BuildBlock"
    /\ ret.err = "errGetPreferred"
    /\ Len(mempool) = 1
    /\ toEngine = 1
    /\ owed = 0

\* the k-th payload as proposeBlock receives it
PaddedPayload == [k \in 1..MaxProposals |-> CopyToArr(NthPayload(k))]

\* the payloads handed to proposeBlock since the last Initialize: the latest
\* proposals, as many as are unbuilt or were built into a block object
ProposedHere ==
    {PaddedPayload[k] :
        k \in (nProposed - Len(unbuilt) - Len(heap) + 1)..nProposed}

\* of these, the payloads that are neither in the mempool nor in a block
Dropped ==
    ProposedHere \ ({mempool[i] : i \in 1..Len(mempool)}
                        \cup {heap[i].blk.Dt : i \in 1..Len(heap)})

\* C20: a BuildBlock that finds a payload and fails has taken the oldest
\* payload all the same: the mempool is one entry shorter, no block is made,
\* the payload is from then on neither in the mempool nor in any block (not
\* put back, in no later block), and a message is in the channel if payloads
\* remain.
C20_DequeueFirst ==
    /\ [][(Called("BuildBlock") /\ Len(mempool) > 0 /\ ret'.err # "nil") =>
             /\ mempool' = Tail(mempool)
             /\ heap' = heap
             /\ mempool[1] \in Dropped'
             /\ Len(mempool) > 1 => toEngine' = 1
             /\ Len(mempool) = 1 => toEngine' = toEngine]_vars
    /\ [][(up /\ up') => Dropped \subseteq Dropped']_vars
    /\ [](Cardinality(Dropped) = Len(unbuilt) - Len(mempool))

\* C20: a BuildBlock failed and lost the first payload, and a later BuildBlock
\* has returned a block with the second
C20_Witness ==
    /\ ret.op = "BuildBlock"
    /\ ret.err = "nil"
    /\ Dropped = {CopyToArr(NthPayload(nProposed - 1))}
    /\ heap[ret.ref].blk.Dt = CopyToArr(NthPayload(nProposed))
    /\ Len(mempool) = 0

====
